---- MODULE Spec2Model ----
(***************************************************************************)
(* Model of examples/authenticated-client.py: authenticated_request().     *)
(* The run is a linear sequence: locate the service account key file,      *)
(* load it, build credentials, refresh them, POST to the service, print    *)
(* the response.  Strings are sequences of tokens, so that formatting the  *)
(* project id into the key path and stripping it are computed.             *)
(***************************************************************************)
EXTENDS Integers, Sequences, FiniteSets, TLC

\* ---------------------------------------------------------------- bounds
MaxLines == 2
MaxRuns == 2

\* ------------------------------------------------------- strings, values
\* Python None and str values of SERVICE_ACCOUNT_FILE.
None == [isNone |-> TRUE, val |-> <<>>]
Str(s) == [isNone |-> FALSE, val |-> s]

\* Python truthiness of an Optional[str]: None and '' are falsy.
Truthy(v) == ~v.isNone /\ v.val # <<>>

Whitespace == {" "}

SeqsUpTo(S, n) == UNION {[1..k -> S] : k \in 0..n}

RECURSIVE LStrip(_)
LStrip(s) == IF s # <<>> /\ Head(s) \in Whitespace THEN LStrip(Tail(s)) ELSE s

RECURSIVE RStrip(_)
RStrip(s) ==
  IF s # <<>> /\ s[Len(s)] \in Whitespace THEN RStrip(SubSeq(s, 1, Len(s) - 1)) ELSE s

\* str.strip()
Strip(s) == RStrip(LStrip(s))

\* ------------------------------------------------------------ file names
DefaultPath == <<"service_account.json">>
OverridePath == <<"/keys/override.json">>
ProjectSpecificPath(project_id) ==
  <<"service_accounts/">> \o project_id \o <<"_service_account.json">>

\* re.search(r'^PROJECT_ID=(.+)$', env_content, re.MULTILINE): a line that
\* starts with PROJECT_ID= and has at least one more character.
LineMatches(line) == Len(line) >= 2 /\ line[1] = "PROJECT_ID="

\* index of the first matching line, 0 when there is none
MatchIndex(content) ==
  IF \E i \in 1..Len(content) : LineMatches(content[i])
  THEN CHOOSE i \in 1..Len(content) :
         /\ LineMatches(content[i])
         /\ \A j \in 1..(i - 1) : ~LineMatches(content[j])
  ELSE 0

\* match.group(1)
Group1(content) == Tail(content[MatchIndex(content)])

\* --------------------------------------------------------------- inputs
Absent == [kind |-> "absent", content |-> <<>>]
Unreadable == [kind |-> "unreadable", content |-> <<>>]
Readable(c) == [kind |-> "readable", content |-> c]

\* The lines .env is made of: a line is a sequence of tokens, "PROJECT_ID="
\* being the eleven characters the pattern looks for.
Lines ==
  { <<>>,                                    \* empty line
    <<"PROJECT_ID=">>,                       \* no value: (.+) needs a character
    <<"PROJECT_ID=", "a">>,
    <<"PROJECT_ID=", " ", "a", " ">>,        \* value with blanks around it
    <<"PROJECT_ID=", "b">>,
    <<"PROJECT_ID=", " ">>,                  \* value of blanks only
    <<"export ", "PROJECT_ID=", "a">>,       \* not at the start of the line
    <<"SERVICE_URL=", "a">> }                \* another key
Contents == SeqsUpTo(Lines, MaxLines)
EnvFiles == {Absent, Unreadable} \cup {Readable(c) : c \in Contents}

Overrides == {None, Str(<<>>), Str(OverridePath)}

FileUniverse == {ProjectSpecificPath(<<"a">>), ProjectSpecificPath(<<"b">>), DefaultPath}

ServiceUrls == {None, Str(<<"https://svc.example">>)}
DefaultServiceUrl == <<"https://your-service-name-xxxxx.run.app">>
Tokens == {"tok1", "tok2"}

VARIABLES
  override,              \* os.environ['SERVICE_ACCOUNT_PATH'] (None when unset)
  envFile,               \* the file .env
  existing,              \* the paths for which Path(p).exists() is true
  run,                   \* number of the invocation
  pc,
  SERVICE_ACCOUNT_FILE,
  env_content,
  project_specific_path,
  SERVICE_URL,
  credentials_token,
  console,               \* what was printed in this run
  posts,                 \* the HTTP requests sent in this run
  existsChecks,
  configReads,
  fileOpens,
  refreshes,
  outcome,
  failedStep,
  exception,             \* the exception that ended the run
  completed,             \* the steps of this run that returned normally
  prevResolution         \* the result of resolution in the previous run

inputs == <<override, envFile, existing>>
locals == <<SERVICE_ACCOUNT_FILE, env_content, project_specific_path, SERVICE_URL,
            credentials_token>>
counters == <<existsChecks, configReads, fileOpens, refreshes>>
status == <<outcome, failedStep, exception>>
vars == <<override, envFile, existing, run, pc, SERVICE_ACCOUNT_FILE, env_content,
          project_specific_path, SERVICE_URL, credentials_token, console, posts,
          existsChecks, configReads, fileOpens, refreshes, outcome, failedStep,
          exception, completed, prevResolution>>

Msg(text, arg) == [text |-> text, arg |-> arg]
NoKeyMsg == Msg("Error: No service account key found.", <<>>)
HintMsg == Msg("Run ./scripts/download-service-account-key.sh to download it", <<>>)
UsingMsg(path) == Msg("Using service account key:", path)
FileNotFoundMsg(path) == Msg("Error: Service account file not found", path)
ErrorMsg(exc) == Msg("Error:", <<exc>>)
TracebackMsg(exc) == Msg("Traceback (most recent call last)", <<exc>>)
ResponseMsg == Msg("Response:", <<>>)

ResolutionPcs == {"start", "env_exists", "env_read", "search", "proj_exists",
                  "default", "check"}

Init ==
  /\ override \in Overrides
  /\ envFile \in EnvFiles
  /\ existing \in SUBSET FileUniverse
  /\ run = 1
  /\ pc = "start"
  /\ SERVICE_ACCOUNT_FILE = None
  /\ env_content = <<>>
  /\ project_specific_path = <<>>
  /\ SERVICE_URL = <<>>
  /\ credentials_token = "None"
  /\ console = <<>>
  /\ posts = <<>>
  /\ existsChecks = 0
  /\ configReads = 0
  /\ fileOpens = 0
  /\ refreshes = 0
  /\ outcome = "running"
  /\ failedStep = "none"
  /\ exception = "none"
  /\ completed = <<>>
  /\ prevResolution = [kind |-> "none", path |-> None]

\* ------------------------------------------------- credential resolution
\* line 15-17
ReadOverrideChecked ==
  /\ pc = "start"
  /\ existsChecks' = IF Truthy(override) THEN existsChecks + 1 ELSE existsChecks
  /\ IF Truthy(override) /\ override.val \in existing
     THEN SERVICE_ACCOUNT_FILE' = override /\ pc' = "check"
     ELSE SERVICE_ACCOUNT_FILE' = None /\ pc' = "env_exists"
  /\ UNCHANGED <<inputs, run, env_content, project_specific_path, SERVICE_URL,
                 credentials_token, console, posts, configReads, fileOpens, refreshes,
                 status, completed, prevResolution>>

ReadOverride ==
  /\ pc = "start"
  /\ SERVICE_ACCOUNT_FILE' = override
  /\ pc' = IF Truthy(override) THEN "check" ELSE "env_exists"
  /\ UNCHANGED <<inputs, run, env_content, project_specific_path, SERVICE_URL,
                 credentials_token, console, posts, counters, status, completed,
                 prevResolution>>

\* line 19-20
EnvExists ==
  /\ pc = "env_exists"
  /\ existsChecks' = existsChecks + 1
  /\ pc' = IF envFile.kind # "absent" THEN "env_read" ELSE "default"
  /\ UNCHANGED <<inputs, run, locals, console, posts, configReads, fileOpens,
                 refreshes, status, completed, prevResolution>>

\* line 21-22; an OSError of open() is outside the try block and propagates
\* out of authenticated_request() (line 85): the interpreter prints the
\* traceback and exits.
ReadEnv ==
  /\ pc = "env_read"
  /\ configReads' = configReads + 1
  /\ IF envFile.kind = "unreadable"
     THEN /\ pc' = "done"
          /\ outcome' = "Uncaught"
          /\ failedStep' = "env_read"
          /\ exception' = "OSError"
          /\ console' = Append(console, TracebackMsg("OSError"))
          /\ UNCHANGED env_content
     ELSE /\ pc' = "search"
          /\ env_content' = envFile.content
          /\ UNCHANGED <<status, console>>
  /\ UNCHANGED <<inputs, run, SERVICE_ACCOUNT_FILE, project_specific_path, SERVICE_URL,
                 credentials_token, posts, existsChecks, fileOpens, refreshes,
                 completed, prevResolution>>

\* line 23-26
SearchProjectId ==
  /\ pc = "search"
  /\ IF MatchIndex(env_content) # 0
     THEN /\ project_specific_path' = ProjectSpecificPath(Strip(Group1(env_content)))
          /\ pc' = "proj_exists"
     ELSE /\ pc' = "default"
          /\ UNCHANGED project_specific_path
  /\ UNCHANGED <<inputs, run, SERVICE_ACCOUNT_FILE, env_content, SERVICE_URL,
                 credentials_token, console, posts, counters, status, completed,
                 prevResolution>>

\* line 27-28
ProjectExistsTwice ==
  /\ pc = "proj_exists"
  /\ existsChecks' = existsChecks + 2
  /\ SERVICE_ACCOUNT_FILE' = IF project_specific_path \in existing
                             THEN Str(project_specific_path)
                             ELSE SERVICE_ACCOUNT_FILE
  /\ pc' = "default"
  /\ UNCHANGED <<inputs, run, env_content, project_specific_path, SERVICE_URL,
                 credentials_token, console, posts, configReads, fileOpens, refreshes,
                 status, completed, prevResolution>>

ProjectExists ==
  /\ pc = "proj_exists"
  /\ existsChecks' = existsChecks + 1
  /\ SERVICE_ACCOUNT_FILE' = IF project_specific_path \in existing
                             THEN Str(project_specific_path)
                             ELSE SERVICE_ACCOUNT_FILE
  /\ pc' = "default"
  /\ UNCHANGED <<inputs, run, env_content, project_specific_path, SERVICE_URL,
                 credentials_token, console, posts, configReads, fileOpens, refreshes,
                 status, completed, prevResolution>>

\* line 31-32; `and` short-circuits: exists() is called only when nothing
\* was found so far.
DefaultFallbackAlways ==
  /\ pc = "default"
  /\ existsChecks' = existsChecks + 1
  /\ SERVICE_ACCOUNT_FILE' = IF DefaultPath \in existing
                             THEN Str(DefaultPath)
                             ELSE SERVICE_ACCOUNT_FILE
  /\ pc' = "check"
  /\ UNCHANGED <<inputs, run, env_content, project_specific_path, SERVICE_URL,
                 credentials_token, console, posts, configReads, fileOpens, refreshes,
                 status, completed, prevResolution>>

DefaultFallback ==
  /\ pc = "default"
  /\ IF ~Truthy(SERVICE_ACCOUNT_FILE)
     THEN /\ existsChecks' = existsChecks + 1
          /\ SERVICE_ACCOUNT_FILE' = IF DefaultPath \in existing
                                     THEN Str(DefaultPath)
                                     ELSE SERVICE_ACCOUNT_FILE
     ELSE UNCHANGED <<existsChecks, SERVICE_ACCOUNT_FILE>>
  /\ pc' = "check"
  /\ UNCHANGED <<inputs, run, env_content, project_specific_path, SERVICE_URL,
                 credentials_token, console, posts, configReads, fileOpens, refreshes,
                 status, completed, prevResolution>>

\* line 34-42
CheckFoundCaching ==
  /\ pc = "check"
  /\ IF ~Truthy(SERVICE_ACCOUNT_FILE)
     THEN /\ console' = console \o <<NoKeyMsg, HintMsg>>
          /\ outcome' = "CredentialNotFound"
          /\ failedStep' = "resolve"
          /\ pc' = "done"
          /\ UNCHANGED <<SERVICE_URL, exception, completed, override>>
     ELSE /\ console' = Append(console, UsingMsg(SERVICE_ACCOUNT_FILE.val))
          /\ override' = SERVICE_ACCOUNT_FILE
          /\ \E u \in ServiceUrls :
               SERVICE_URL' = IF u.isNone THEN DefaultServiceUrl ELSE u.val
          /\ completed' = Append(completed, "resolve")
          /\ pc' = "open"
          /\ UNCHANGED status
  /\ UNCHANGED <<envFile, existing, run, SERVICE_ACCOUNT_FILE, env_content,
                 project_specific_path, credentials_token, posts, counters,
                 prevResolution>>

CheckFound ==
  /\ pc = "check"
  /\ IF ~Truthy(SERVICE_ACCOUNT_FILE)
     THEN /\ console' = console \o <<NoKeyMsg, HintMsg>>
          /\ outcome' = "CredentialNotFound"
          /\ failedStep' = "resolve"
          /\ pc' = "done"
          /\ UNCHANGED <<SERVICE_URL, exception, completed>>
     ELSE /\ console' = Append(console, UsingMsg(SERVICE_ACCOUNT_FILE.val))
          /\ \E u \in ServiceUrls :
               SERVICE_URL' = IF u.isNone THEN DefaultServiceUrl ELSE u.val
          /\ completed' = Append(completed, "resolve")
          /\ pc' = "open"
          /\ UNCHANGED status
  /\ UNCHANGED <<inputs, run, SERVICE_ACCOUNT_FILE, env_content, project_specific_path,
                 credentials_token, posts, counters, prevResolution>>

\* ------------------------------------------------------- the try block
\* line 78-82: the handlers of the try block.  FileNotFoundError has its own
\* message; every other exception is printed by the catch-all.
RaiseCatchAllOnly(exc, step) ==
  /\ console' = Append(console, ErrorMsg(exc))
  /\ outcome' = "CatchAll"
  /\ failedStep' = step
  /\ exception' = exc
  /\ pc' = "done"

RaiseSilent(exc, step) ==
  /\ console' = console
  /\ outcome' = IF exc = "FileNotFoundError" THEN "CredentialFileUnreadable"
                ELSE "CatchAll"
  /\ failedStep' = step
  /\ exception' = exc
  /\ pc' = "done"

Raise(exc, step) ==
  /\ console' = IF exc = "FileNotFoundError"
                THEN console \o <<FileNotFoundMsg(SERVICE_ACCOUNT_FILE.val), HintMsg>>
                ELSE Append(console, ErrorMsg(exc))
  /\ outcome' = IF exc = "FileNotFoundError" THEN "CredentialFileUnreadable"
                ELSE "CatchAll"
  /\ failedStep' = step
  /\ exception' = exc
  /\ pc' = "done"

\* a statement of the try block returned normally
Return(step, next) ==
  /\ completed' = Append(completed, step)
  /\ pc' = next

\* FileNotFoundError: no such file; PermissionError stands for the other
\* OSErrors of open() (permission denied, is a directory).
OpenErrors == {"FileNotFoundError", "PermissionError"}

\* line 46
OpenKeyFile ==
  /\ pc = "open"
  /\ fileOpens' = fileOpens + 1
  /\ \/ /\ Return("open", "parse")
        /\ UNCHANGED <<console, status>>
     \/ /\ \E exc \in OpenErrors : Raise(exc, "open")
        /\ UNCHANGED completed
  /\ UNCHANGED <<inputs, run, locals, posts, existsChecks, configReads, refreshes,
                 prevResolution>>

\* line 47
ParseKeyFile ==
  /\ pc = "parse"
  /\ \/ /\ Return("parse", "creds")
        /\ UNCHANGED <<console, status>>
     \/ /\ Raise("JSONDecodeError", "parse")
        /\ UNCHANGED completed
  /\ UNCHANGED <<inputs, run, locals, posts, counters, prevResolution>>

\* line 50-53
CreateCredentials ==
  /\ pc = "creds"
  /\ \/ /\ Return("creds", "refresh")
        /\ UNCHANGED <<console, status>>
     \/ /\ Raise("ValueError", "creds")
        /\ UNCHANGED completed
  /\ UNCHANGED <<inputs, run, locals, posts, counters, prevResolution>>

\* line 56
RefreshLenient ==
  /\ pc = "refresh"
  /\ refreshes' = refreshes + 1
  /\ \/ /\ \E t \in Tokens : credentials_token' = t
        /\ Return("refresh", "post")
        /\ UNCHANGED <<console, status>>
     \/ /\ pc' = "post"
        /\ UNCHANGED <<credentials_token, completed, console, status>>
  /\ UNCHANGED <<inputs, run, SERVICE_ACCOUNT_FILE, env_content, project_specific_path,
                 SERVICE_URL, posts, existsChecks, configReads, fileOpens,
                 prevResolution>>

RefreshCredentials ==
  /\ pc = "refresh"
  /\ refreshes' = refreshes + 1
  /\ \/ /\ \E t \in Tokens : credentials_token' = t
        /\ Return("refresh", "post")
        /\ UNCHANGED <<console, status>>
     \/ /\ Raise("RefreshError", "refresh")
        /\ UNCHANGED <<credentials_token, completed>>
  /\ UNCHANGED <<inputs, run, SERVICE_ACCOUNT_FILE, env_content, project_specific_path,
                 SERVICE_URL, posts, existsChecks, configReads, fileOpens,
                 prevResolution>>

\* line 59-74
PostRequest ==
  /\ pc = "post"
  /\ posts' = Append(posts, [url |-> SERVICE_URL \o <<"/process">>,
                             bearer |-> credentials_token])
  /\ \/ /\ Return("post", "respond")
        /\ UNCHANGED <<console, status>>
     \/ /\ Raise("ConnectionError", "post")
        /\ UNCHANGED completed
  /\ UNCHANGED <<inputs, run, locals, counters, prevResolution>>

\* line 76
PrintResponse ==
  /\ pc = "respond"
  /\ \/ /\ console' = Append(console, ResponseMsg)
        /\ outcome' = "Success"
        /\ Return("respond", "done")
        /\ UNCHANGED <<failedStep, exception>>
     \/ /\ Raise("JSONDecodeError", "respond")
        /\ UNCHANGED completed
  /\ UNCHANGED <<inputs, run, locals, posts, counters, prevResolution>>

\* ------------------------------------------------------ a second run
ResolutionEnded == pc \notin ResolutionPcs

\* what resolution (line 15-37) produced: a path, the 'not found' report,
\* or an exception
ResolutionResult ==
  IF pc \in ResolutionPcs THEN [kind |-> "pending", path |-> None]
  ELSE IF outcome = "Uncaught" THEN [kind |-> "raised", path |-> None]
  ELSE IF outcome = "CredentialNotFound" THEN [kind |-> "notfound", path |-> None]
  ELSE [kind |-> "path", path |-> SERVICE_ACCOUNT_FILE]

\* line 84-85: the script is started again in the same environment
Rerun ==
  /\ pc = "done"
  /\ run < MaxRuns
  /\ run' = run + 1
  /\ prevResolution' = ResolutionResult
  /\ pc' = "start"
  /\ SERVICE_ACCOUNT_FILE' = None
  /\ env_content' = <<>>
  /\ project_specific_path' = <<>>
  /\ SERVICE_URL' = <<>>
  /\ credentials_token' = "None"
  /\ console' = <<>>
  /\ posts' = <<>>
  /\ existsChecks' = 0
  /\ configReads' = 0
  /\ fileOpens' = 0
  /\ refreshes' = 0
  /\ outcome' = "running"
  /\ failedStep' = "none"
  /\ exception' = "none"
  /\ completed' = <<>>
  /\ UNCHANGED inputs

Next ==
  \/ ReadOverride
  \/ EnvExists
  \/ ReadEnv
  \/ SearchProjectId
  \/ ProjectExists
  \/ DefaultFallback
  \/ CheckFound
  \/ OpenKeyFile
  \/ ParseKeyFile
  \/ CreateCredentials
  \/ RefreshCredentials
  \/ PostRequest
  \/ PrintResponse
  \/ Rerun

Spec == Init /\ [][Next]_vars

TypeOK ==
  /\ pc \in ResolutionPcs \cup {"open", "parse", "creds", "refresh", "post", "respond", "done"}
  /\ run \in 1..MaxRuns

\* ------------------------------------------------------------ properties
Last(q) == q[Len(q)]
Found(path) == [kind |-> "path", path |-> Str(path)]

\* the configuration source yields a project identifier
YieldsProjectId == envFile.kind = "readable" /\ MatchIndex(envFile.content) # 0
\* the project-specific path built from it
ConfigProjectPath == ProjectSpecificPath(Strip(Group1(envFile.content)))
UsableProjectFile == YieldsProjectId /\ ConfigProjectPath \in existing

StepOrder == <<"resolve", "open", "parse", "creds", "refresh", "post", "respond">>
StepIndex(step) == CHOOSE i \in 1..Len(StepOrder) : StepOrder[i] = step
ErrorOutcomes == {"CredentialNotFound", "CredentialFileUnreadable", "CatchAll", "Uncaught"}

\* C1 (as stated): whenever SERVICE_ACCOUNT_PATH is present in the environment,
\* resolution yields exactly its value, without any existence check.
C1_OverridePresentWins ==
  (ResolutionEnded /\ ~override.isNone)
    => (ResolutionResult = [kind |-> "path", path |-> override] /\ existsChecks = 0)

\* C1 (amended): whenever SERVICE_ACCOUNT_PATH is set to a non-empty value,
\* resolution yields exactly that value, whatever .env contains and whichever
\* key files exist, without any existence check and without reading .env; an
\* override set to the empty string is treated as absent.
C1_NonEmptyOverrideWins ==
  /\ (ResolutionEnded /\ Truthy(override))
       => /\ ResolutionResult = [kind |-> "path", path |-> override]
          /\ existsChecks = 0
          /\ configReads = 0
  /\ (ResolutionEnded /\ override = Str(<<>>))
       => ResolutionResult # [kind |-> "path", path |-> override]

C1_Witness ==
  /\ ResolutionEnded
  /\ override = Str(OverridePath)
  /\ UsableProjectFile
  /\ DefaultPath \in existing
  /\ ResolutionResult = Found(OverridePath)

\* C2: with no override, when .env yields a project id P and
\* service_accounts/P_service_account.json exists, resolution yields that path,
\* whether or not service_account.json exists.
C2_ProjectSpecificWins ==
  (ResolutionEnded /\ override.isNone /\ UsableProjectFile)
    => ResolutionResult = Found(ConfigProjectPath)

C2_Witness ==
  /\ ResolutionEnded
  /\ override.isNone
  /\ envFile = Readable(<< <<"SERVICE_URL=", "a">>, <<"PROJECT_ID=", " ", "a", " ">> >>)
  /\ DefaultPath \in existing
  /\ ResolutionResult = Found(<<"service_accounts/", "a", "_service_account.json">>)

\* C3: with no override and no usable project-specific file, resolution
\* yields service_account.json if and only if it exists; the default path is
\* never the result when it does not exist.
C3_DefaultIffExists ==
  /\ (ResolutionEnded /\ override.isNone /\ ~UsableProjectFile)
       => (ResolutionResult = Found(DefaultPath) <=> DefaultPath \in existing)
  /\ (override.isNone /\ SERVICE_ACCOUNT_FILE = Str(DefaultPath))
       => DefaultPath \in existing

\* What holds of C3: the same, as long as reading .env does not fail (.env
\* absent, or read without a PROJECT_ID match, or read and the
\* project-specific path does not exist).
C3_DefaultIffExistsEnvRead ==
  envFile.kind # "unreadable" => C3_DefaultIffExists

\* C4: with no override, no existing project-specific path and no existing
\* default path, the run ends with the 'no key found' message and the hint,
\* and neither opens a key file, nor refreshes a token, nor sends a request.
C4_NotFound ==
  (pc = "done" /\ override.isNone /\ ~UsableProjectFile /\ DefaultPath \notin existing)
    => /\ outcome = "CredentialNotFound"
       /\ console = <<NoKeyMsg, HintMsg>>
       /\ fileOpens = 0
       /\ refreshes = 0
       /\ posts = <<>>

\* What holds of C4: the same, as long as reading .env does not fail.
C4_NotFoundEnvRead ==
  envFile.kind # "unreadable" => C4_NotFound

\* C5: for every input, .env not readable included, resolution ends with
\* exactly one of: a resolved path, or the 'not found' signal.
C5_PathOrNotFound ==
  ResolutionEnded
    => /\ ResolutionResult.kind \in {"path", "notfound"}
       /\ ResolutionResult.kind = "path" <=> Truthy(SERVICE_ACCOUNT_FILE)
       /\ ResolutionResult.kind = "notfound" <=> outcome = "CredentialNotFound"

\* C6 (as stated): a key file that is missing or unreadable at open time ends
\* the run with the file-specific message, and the catch-all is reached only
\* by failures of the token refresh or of the network call.
C6_OpenFailureIsFileError ==
  /\ (pc = "done" /\ failedStep = "open") => outcome = "CredentialFileUnreadable"
  /\ outcome = "CatchAll" => failedStep \in {"refresh", "post", "respond"}

\* C6 (amended): a key file that does not exist at open time
\* (FileNotFoundError) ends the run with the file-specific message and the
\* hint, not with the catch-all; every other failure in the try block (key
\* file not readable, JSON parsing, credential construction, token refresh,
\* POST, response decoding) is printed by the catch-all.
C6_OnlyMissingFileIsFileError ==
  /\ exception = "FileNotFoundError"
       => /\ outcome = "CredentialFileUnreadable"
          /\ failedStep = "open"
          /\ Len(console) >= 2
          /\ console[Len(console) - 1] = FileNotFoundMsg(SERVICE_ACCOUNT_FILE.val)
          /\ Last(console) = HintMsg
  /\ outcome = "CredentialFileUnreadable" => exception = "FileNotFoundError"
  /\ (failedStep \in {"open", "parse", "creds", "refresh", "post", "respond"}
        /\ exception # "FileNotFoundError")
       => (outcome = "CatchAll" /\ Last(console) = ErrorMsg(exception))
  /\ outcome = "CatchAll"
       => failedStep \in {"open", "parse", "creds", "refresh", "post", "respond"}

C6_Witness ==
  /\ pc = "done"
  /\ exception = "FileNotFoundError"
  /\ outcome = "CredentialFileUnreadable"
  /\ SERVICE_ACCOUNT_FILE = Str(DefaultPath)

\* C7: every error is terminal and reported: after a failure at any step the
\* error is on the console, the run has ended, no later step was attempted,
\* and no step is attempted twice in a run.
C7_ErrorsTerminalReported ==
  /\ fileOpens <= 1 /\ refreshes <= 1 /\ Len(posts) <= 1 /\ configReads <= 1
  /\ \A i, j \in 1..Len(completed) : completed[i] = completed[j] => i = j
  /\ outcome \in ErrorOutcomes
       => /\ pc = "done"
          /\ console # <<>>
          /\ outcome = "CredentialNotFound" => console = <<NoKeyMsg, HintMsg>>
          /\ outcome = "Uncaught" => Last(console) = TracebackMsg(exception)
          /\ outcome = "CatchAll" => Last(console) = ErrorMsg(exception)
          /\ outcome = "CredentialFileUnreadable" => Last(console) = HintMsg
          /\ failedStep = "env_read" => completed = <<>>
          /\ failedStep # "env_read"
               => completed = SubSeq(StepOrder, 1, StepIndex(failedStep) - 1)
          /\ fileOpens = (IF StepIndex("open") <= Len(completed) \/ failedStep = "open"
                          THEN 1 ELSE 0)
          /\ refreshes = (IF StepIndex("refresh") <= Len(completed)
                             \/ failedStep = "refresh" THEN 1 ELSE 0)
          /\ Len(posts) = (IF StepIndex("post") <= Len(completed) \/ failedStep = "post"
                           THEN 1 ELSE 0)
  /\ (exception # "none" \/ failedStep # "none") => outcome \in ErrorOutcomes

C7_Witness ==
  /\ pc = "done"
  /\ outcome = "CatchAll"
  /\ failedStep = "post"
  /\ Len(posts) = 1
  /\ Last(console) = ErrorMsg("ConnectionError")

\* C8 (as stated): at most one read of .env and at most two existence checks
\* in a run, and no other side effect during resolution.
C8_AtMostTwoChecks ==
  /\ configReads <= 1
  /\ existsChecks <= 2
  /\ pc \in ResolutionPcs
       => (console = <<>> /\ posts = <<>> /\ fileOpens = 0 /\ refreshes = 0)

\* C8 (amended): at most one read of .env and at most three existence checks
\* in a run (.env itself, the project-specific path, the default path), and
\* no other side effect during resolution.
C8_AtMostThreeChecks ==
  /\ configReads <= 1
  /\ existsChecks <= 3
  /\ pc \in ResolutionPcs
       => (console = <<>> /\ posts = <<>> /\ fileOpens = 0 /\ refreshes = 0)

C8_Witness ==
  /\ ResolutionEnded
  /\ existsChecks = 3
  /\ configReads = 1

\* C9: two resolutions with the same override, the same .env and the same
\* existing files end the same way, and a resolution changes none of them.
C9_Idempotent ==
  /\ []((run > 1 /\ ResolutionEnded) => ResolutionResult = prevResolution)
  /\ [][inputs' = inputs]_vars

C9_Witness ==
  /\ run = 2
  /\ ResolutionEnded
  /\ override.isNone
  /\ prevResolution.kind = "path"
  /\ ResolutionResult = prevResolution

\* C10: a POST is sent only after resolution, opening and parsing the key
\* file, building the credentials and a successful token refresh, in this
\* order; when one of them fails no POST is sent; the POST goes to
\* <base URL>/process and carries the token of that refresh.
C10_PostAfterRefresh ==
  /\ posts # <<>>
       => /\ Len(posts) = 1
          /\ Len(completed) >= 5
          /\ SubSeq(completed, 1, 5) = SubSeq(StepOrder, 1, 5)
          /\ Truthy(SERVICE_ACCOUNT_FILE)
          /\ fileOpens = 1
          /\ refreshes = 1
          /\ credentials_token \in Tokens
          /\ posts[1].bearer = credentials_token
          /\ posts[1].url = SERVICE_URL \o <<"/process">>
  /\ failedStep \in {"env_read", "resolve", "open", "parse", "creds", "refresh"}
       => posts = <<>>

C10_Witness ==
  /\ pc = "done"
  /\ outcome = "Success"
  /\ Len(posts) = 1
  /\ posts[1].bearer = "tok2"
  /\ posts[1].url = <<"https://svc.example", "/process">>

====
